---- MODULE Spec2Model ----
(***************************************************************************)
(* A model of SocketHandler (src/src/SocketHandler.ts) and of the token    *)
(* verification it relies on (src/src/socketTokens.ts).                    *)
(*                                                                         *)
(* The state is the handler's two private maps (#socketInfo and            *)
(* #messageBacklogs), the part of the platform the handler talks to (the   *)
(* accepted WebSockets, their attachments, what was written to each        *)
(* connection) and the message handlers that are suspended at an await.    *)
(* Every public entry point of the class is one action.                    *)
(***************************************************************************)
EXTENDS Integers, Sequences, FiniteSets, TLC

\* ------------------------------------------------------------- bounds
MaxSockets == 2      \* connections the platform ever accepts
MaxOps == 5          \* operations (requests, calls, events) in one run

\* ------------------------------------------------------------- values
WS == 1..MaxSockets

Subjects == {"alice", "bob"}
ActorId == "room-1"
OtherActorId == "room-2"
TokenSecret == "s3cret"

\* crypto.randomUUID(): a value no earlier call returned. The n-th accepted
\* connection gets the n-th identifier.
randomUUID(n) == 100 + n

\* responseTo: null
Null == 0

\* JSON.stringify / JSON.parse: a frame is text; text that JSON.stringify
\* produced parses back to the value, any other text makes JSON.parse throw.
JSONstringify(value) == [text |-> "json", value |-> value]
GarbageFrame == [text |-> "garbage", value |-> [type |-> "?"]]
JSONparseThrows(frame) == frame.text # "json"
JSONparse(frame) == frame.value

\* ------------------------------------------------------------- tokens
\* A token as getSocketToken signs it: the claims and the key that signed it.
\* (Time is not modelled: every token is presented within its hour.)
Token(sub, aud, key) ==
    [present |-> TRUE, sub |-> sub, aud |-> aud, key |-> key]
NoToken ==
    [present |-> FALSE, sub |-> "", aud |-> "", key |-> ""]

\* jose's jwtVerify(token, key): throws on a signature made with another key.
jwtVerifyThrows(token, secret) == token.key # secret

verifySocketTokenWithoutAudience(token, secret, audience) ==
    IF jwtVerifyThrows(token, secret)
    THEN [ok |-> FALSE, sub |-> "", aud |-> ""]
    ELSE [ok |-> TRUE, sub |-> token.sub, aud |-> token.aud]

verifySocketToken(token, secret, audience) ==
    IF jwtVerifyThrows(token, secret)
    THEN [ok |-> FALSE, sub |-> "", aud |-> ""]
    ELSE IF token.aud # audience
    THEN [ok |-> FALSE, sub |-> "", aud |-> ""]
    ELSE [ok |-> TRUE, sub |-> token.sub, aud |-> token.aud]

\* ------------------------------------------------------------- state
VARIABLES
    socketInfo,        \* #socketInfo: connection -> SocketSessionInfo
    messageBacklogs,   \* #messageBacklogs: socketId -> messages
    conn,              \* platform: what became of each connection handle
    attachment,        \* platform: the attachment serialized on each handle
    wire,              \* platform: the frames written to each connection
    clientCalls,       \* the #onClientMessage calls, by messageId
    enqueued,          \* history: the messages send() backlogged, per connection
    connectCalls,      \* history: connections the connect hook was called with
    disconnectCalls,   \* history: the disconnect hook's calls, per connection
    lastOp,            \* history: the operation that led to this state
    ops                \* history: the number of operations so far

vars == <<socketInfo, messageBacklogs, conn, attachment, wire, clientCalls,
          enqueued, connectCalls, disconnectCalls, lastOp,
          ops>>

\* Every operation counts against the bound of the run.
Tick == ops < MaxOps /\ ops' = ops + 1

\* Map.set, Map.delete, Map.has on a function whose domain is the key set.
MapSet(m, k, v) == [x \in DOMAIN m \cup {k} |-> IF x = k THEN v ELSE m[x]]
MapDelete(m, k) == [x \in DOMAIN m \ {k} |-> m[x]]
MapHas(m, k) == k \in DOMAIN m
EmptyMap == [x \in {} |-> 0]

SocketSessionInfo(audience, subject, socketId, status) ==
    [audience |-> audience, subject |-> subject,
     socketId |-> socketId, status |-> status]

\* ws.serializeAttachment / ws.deserializeAttachment: the platform keeps a
\* structured clone of the value with the connection.
serializeAttachmentAtHandshake(info) ==
    [blob |-> <<info.audience, info.subject, info.socketId, "pending">>]

serializeAttachment(info) ==
    [blob |-> <<info.audience, info.subject, info.socketId, info.status>>]

deserializeAttachmentAsPending(data) ==
    SocketSessionInfo(data.blob[1], data.blob[2], data.blob[3], "pending")

deserializeAttachment(data) ==
    SocketSessionInfo(data.blob[1], data.blob[2], data.blob[3], data.blob[4])

\* A connection handle, as the platform sees it.
Unused == [accepted |-> FALSE, client |-> FALSE, closed |-> FALSE, errored |-> FALSE]
Live(c) == c.accepted /\ ~c.closed /\ ~c.errored

\* ctx.getWebSockets(): the accepted connections that have not disconnected.
getWebSockets == {ws \in WS : Live(conn[ws])}

\* ws.send(text) throws once the connection has been closed or has failed.
wsSendThrows(ws) == ~Live(conn[ws])

\* ------------------------------------------------------------- handshake
toLowerCase(s) == IF s = "WebSocket" THEN "websocket" ELSE s

GoodToken(sub) == Token(sub, ActorId, TokenSecret)
BadTokens ==
    { Token("alice", OtherActorId, TokenSecret),   \* another actor's
      Token("alice", ActorId, "forged") }          \* bad signature
Requests ==
    { [upgrade |-> "", token |-> GoodToken("alice")],
      [upgrade |-> "websocket", token |-> NoToken] }
    \cup { [upgrade |-> "WebSocket", token |-> t] :
             t \in BadTokens \cup {GoodToken(s) : s \in Subjects} }

Upgraded == [status |-> 101, thrown |-> "", code |-> 0, message |-> ""]
Thrown(name, code, message) ==
    [status |-> 0, thrown |-> name, code |-> code, message |-> message]

\* The checks of the upgrade handler that come before a connection exists.
\* The result is the error thrown, or Upgraded when none is.
PreAccept(req) ==
    IF req.upgrade = "" \/ toLowerCase(req.upgrade) # "websocket"
    THEN Thrown("SocketHandlerError", 400, "Expected a WebSocket upgrade request")
    ELSE IF ~req.token.present
    THEN Thrown("SocketHandlerError", 400, "Missing token")
    ELSE IF ~verifySocketToken(req.token, TokenSecret, ActorId).ok
    THEN Thrown("Error", 0, "verification failed")
    ELSE Upgraded

NextWs == Cardinality({ws \in WS : conn[ws].accepted}) + 1

\* #updateSocketInfo
updateSocketInfo(ws, info) ==
    /\ socketInfo' = MapSet(socketInfo, ws, info)
    /\ attachment' = MapSet(attachment, ws, serializeAttachment(info))

HookBehaviours == {"returns", "throws"}

\* fetch: the request is rejected before anything is allocated.
FetchRejected ==
    \E req \in Requests :
        /\ Tick
        /\ PreAccept(req) # Upgraded
        /\ lastOp' = [op |-> "fetch", req |-> req, result |-> PreAccept(req),
                      ws |-> 0, hook |-> "notCalled"]
        /\ UNCHANGED <<socketInfo, messageBacklogs, conn, attachment, wire,
                       clientCalls, enqueued, connectCalls, disconnectCalls>>

\* fetch: the token verified; accept, register, call the connect hook, answer.
FetchAccepted ==
    \E req \in Requests, hook \in HookBehaviours :
        /\ Tick
        /\ PreAccept(req) = Upgraded
        /\ NextWs <= MaxSockets
        /\ LET ws == NextWs
               tokenInfo == verifySocketToken(req.token, TokenSecret, ActorId)
               info == SocketSessionInfo(tokenInfo.aud, tokenInfo.sub,
                                         randomUUID(ws), "pending")
           IN  /\ updateSocketInfo(ws, info)
               /\ connectCalls' = connectCalls \cup {ws}
               \* a hook that throws makes the handler throw: no 101 response,
               \* the client end of the pair is never handed out
               /\ conn' = [conn EXCEPT ![ws] =
                              [Unused EXCEPT !.accepted = TRUE,
                                             !.client = (hook = "returns")]]
               /\ lastOp' = [op |-> "fetch", req |-> req,
                             result |-> IF hook = "returns" THEN Upgraded
                                        ELSE Thrown("Error", 0, "connect hook"),
                             ws |-> ws, hook |-> hook]
        /\ UNCHANGED <<messageBacklogs, wire, clientCalls, enqueued,
                       disconnectCalls>>

\* ------------------------------------------------------------- send
\* Server messages. The application's schema accepts the "ping" messages.
ServerMessage(n) == [type |-> "ping", content |-> n]
BadServerMessage == [type |-> "bogus", content |-> 0]
serverMessageShapeSafeParse(msg) == [success |-> msg.type = "ping", data |-> msg]

\* The optional `to` and `notTo` lists.
Absent == [given |-> FALSE, list |-> {}]
Given(list) == [given |-> TRUE, list |-> list]
SendOptions ==
    { <<Absent, Absent>>, <<Given({"alice"}), Absent>>, <<Absent, Given({"alice"})>>,
      <<Given({"alice", "bob"}), Given({"bob"})>> }

\* The two `continue` tests of the loop: is a session of this subject served?
IsTarget(subject, to, notTo) ==
    /\ ~(to.given /\ subject \notin to.list)
    /\ ~(notTo.given /\ subject \in notTo.list)

\* backlog.push(parsed.data)
BacklogPushFront(backlog, data) == <<data>> \o backlog

BacklogPush(backlog, data) == Append(backlog, data)

\* Array.from(map.keys()): the keys in insertion order. Handles are numbered
\* in the order they are accepted, which is the order the handshake inserts
\* them and the order getWebSockets() lists them, and Map.set on a present
\* key keeps its place.
RECURSIVE KeysFrom(_, _)
KeysFrom(m, ws) ==
    IF ws > MaxSockets THEN <<>>
    ELSE (IF MapHas(m, ws) THEN <<ws>> ELSE <<>>) \o KeysFrom(m, ws + 1)
MapKeys(m) == KeysFrom(m, 1)

\* The loop of send() over the snapshot `sockets` of the registry, from its
\* i-th entry on. st holds what the loop changes; st.threw is set when
\* ws.send throws, which ends the loop and the call.
RECURSIVE SendLoop(_, _, _, _, _, _)
SendLoop(sockets, snapshot, data, to, notTo, st) ==
    IF sockets = <<>> THEN st
    ELSE
      LET ws == Head(sockets)
          info == snapshot[ws]
          rest == Tail(sockets)
      IN  IF ~IsTarget(info.subject, to, notTo)
          THEN SendLoop(rest, snapshot, data, to, notTo, st)
          ELSE IF info.status = "pending"
          THEN SendLoop(rest, snapshot, data, to, notTo,
                 [st EXCEPT
                    !.messageBacklogs =
                        MapSet(@, info.socketId,
                               BacklogPush(IF MapHas(@, info.socketId)
                                           THEN @[info.socketId] ELSE <<>>,
                                           data)),
                    !.enqueued[ws] = Append(@, data)])
          ELSE IF info.status = "closed"
          THEN SendLoop(rest, snapshot, data, to, notTo,
                 [st EXCEPT !.socketInfo = MapDelete(@, ws)])
          ELSE IF wsSendThrows(ws)
          THEN [st EXCEPT !.threw = TRUE]
          ELSE SendLoop(rest, snapshot, data, to, notTo,
                 [st EXCEPT !.wire[ws] = Append(@, JSONstringify(data))])

\* What a send() call has done so far: the maps and wires as it leaves them,
\* whether ws.send threw, whether the message was rejected by the schema.
SendStart ==
    [socketInfo |-> socketInfo, messageBacklogs |-> messageBacklogs,
     wire |-> wire, enqueued |-> enqueued, threw |-> FALSE, rejected |-> FALSE]

SendCallWithoutValidation(msg, to, notTo) ==
    SendLoop(MapKeys(socketInfo), socketInfo, msg, to, notTo, SendStart)

\* The body of send(): safeParse, the throw when it fails, else the loop.
SendCall(msg, to, notTo) ==
    LET parsed == serverMessageShapeSafeParse(msg)
    IN  IF ~parsed.success
        THEN [SendStart EXCEPT !.rejected = TRUE]
        ELSE SendLoop(MapKeys(socketInfo), socketInfo, parsed.data, to, notTo,
                      SendStart)

\* What send() throws to its caller.
SendThrew(st) ==
    IF st.rejected THEN "SocketHandlerError"
    ELSE IF st.threw THEN "TypeError" ELSE ""

\* send(msg, {to, notTo}) with a message the schema rejects: it throws.
SendInvalid ==
    \E to \in {Absent, Given({"alice"})}, notTo \in {Absent} :
        /\ Tick
        /\ ~serverMessageShapeSafeParse(BadServerMessage).success
        /\ LET st == SendCall(BadServerMessage, to, notTo)
           IN  /\ socketInfo' = st.socketInfo
               /\ messageBacklogs' = st.messageBacklogs
               /\ wire' = st.wire
               /\ enqueued' = st.enqueued
               /\ lastOp' = [op |-> "send", msg |-> BadServerMessage, to |-> to,
                             notTo |-> notTo, threw |-> SendThrew(st)]
        /\ UNCHANGED <<conn, attachment, clientCalls, connectCalls,
                       disconnectCalls>>

\* send(msg, {to, notTo}) with a valid message.
Send ==
    \E opts \in SendOptions :
        /\ Tick
        /\ LET to == opts[1]
               notTo == opts[2]
               msg == ServerMessage(ops + 1)
               st == SendCall(msg, to, notTo)
           IN  /\ serverMessageShapeSafeParse(msg).success
               /\ socketInfo' = st.socketInfo
               /\ messageBacklogs' = st.messageBacklogs
               /\ wire' = st.wire
               /\ enqueued' = st.enqueued
               /\ lastOp' = [op |-> "send", msg |-> msg, to |-> to, notTo |-> notTo,
                             threw |-> SendThrew(st)]
        /\ UNCHANGED <<conn, attachment, clientCalls, connectCalls,
                       disconnectCalls>>

\* ------------------------------------------------------------- getIsConnected
getIsConnectedAnySession(subject) ==
    \E ws \in DOMAIN socketInfo :
        socketInfo[ws].subject = subject /\ socketInfo[ws].status = "ready"

\* The loop of getIsConnected over the registry's values, in insertion
\* order: the first session of the subject decides.
RECURSIVE IsConnectedLoop(_, _)
IsConnectedLoop(sockets, subject) ==
    IF sockets = <<>> THEN FALSE
    ELSE IF socketInfo[Head(sockets)].subject = subject
    THEN socketInfo[Head(sockets)].status = "ready"
    ELSE IsConnectedLoop(Tail(sockets), subject)

getIsConnected(subject) == IsConnectedLoop(MapKeys(socketInfo), subject)

\* getIsConnected(subject), called by the application.
GetIsConnected ==
    \E subject \in Subjects :
        /\ Tick
        /\ lastOp' = [op |-> "getIsConnected", subject |-> subject,
                      result |-> getIsConnected(subject)]
        /\ UNCHANGED <<socketInfo, messageBacklogs, conn, attachment, wire,
                       clientCalls, enqueued, connectCalls, disconnectCalls>>

\* ------------------------------------------------------------- inbound frames
\* Client messages. The application's schema accepts the types "echo" and
\* "noop" with a messageId; only "echo" has a message handler.
ClientMessage(type, messageId) == [type |-> type, messageId |-> messageId]
clientMessageShapeSafeParse(obj) ==
    [success |-> obj.type \in {"echo", "noop"} /\ obj.messageId # Null,
     data |-> obj]
HasHandler(type) == type = "echo"

\* What a frame can be: text that is no JSON, JSON the schema rejects, and
\* the two valid messages. m is the messageId the client gives the frame.
Frames(m) ==
    { GarbageFrame,
      JSONstringify(ClientMessage("bogus", m)),
      JSONstringify(ClientMessage("echo", m)),
      JSONstringify(ClientMessage("noop", m)) }

\* Values a handler can throw or reject with.
Boom == [isError |-> TRUE, message |-> "boom"]
NotAnError == [isError |-> FALSE, message |-> ""]
NoError == [isError |-> FALSE, message |-> "-"]

\* What a message handler does when called: it returns (or its promise is
\* already settled when awaited), it throws, or it suspends at an await.
HandlerBehaviours ==
    { [does |-> "returns", err |-> NoError],
      [does |-> "throws", err |-> Boom],
      [does |-> "suspends", err |-> NoError] }
\* How the promise of a suspended handler settles.
Settlements ==
    { [does |-> "returns", err |-> NoError],
      [does |-> "throws", err |-> Boom],
      [does |-> "throws", err |-> NotAnError] }

\* The two replies of #onClientMessage.
Ack(msg) == JSONstringify([type |-> "ack", responseTo |-> msg.messageId])

ErrorReplyWithoutId(msg, err) ==
    JSONstringify([type |-> "error",
                   message |-> IF err.isError THEN err.message
                               ELSE "An error occurred",
                   responseTo |-> Null])

ErrorReply(msg, err) ==
    JSONstringify([type |-> "error",
                   message |-> IF err.isError THEN err.message
                               ELSE "An error occurred",
                   responseTo |-> msg.messageId])

\* The two replies of onMessage to a frame it cannot use.
InvalidFormatReply ==
    JSONstringify([type |-> "error", message |-> "Invalid message format",
                   responseTo |-> Null])

ParseErrorReplyAsInvalidFormat ==
    JSONstringify([type |-> "error", message |-> "Invalid message format",
                   responseTo |-> Null])

ParseErrorReply ==
    JSONstringify([type |-> "error", message |-> "Error handling message",
                   responseTo |-> Null])

PromoteToClosed(info) == [info EXCEPT !.status = "closed"]

\* { ...info, status: 'ready' }
Promote(info) == [info EXCEPT !.status = "ready"]

\* this.#messageBacklogs.get(socketId)?.forEach(msg => ws.send(JSON.stringify(msg)))
Flush(backlogs, socketId) ==
    IF MapHas(backlogs, socketId)
    THEN [i \in 1..Len(backlogs[socketId]) |-> JSONstringify(backlogs[socketId][i])]
    ELSE <<>>

\* The record of one #onClientMessage call: what it was called with, whether
\* a handler was called, how the handler ended so far, and whether the
\* call's ws.send went through.
Call(ws, msg, info, handler, outcome, err, replied) ==
    [ws |-> ws, msg |-> msg, info |-> info, handler |-> handler,
     outcome |-> outcome, err |-> err, replied |-> replied]
NoCall == <<>>

\* #onClientMessage(msg, ws, info) up to its first await or to its end: the
\* frames it sends and the record of the call.
onClientMessage(msg, ws, info, behaviour) ==
    IF ~HasHandler(msg.type)
    THEN [sent |-> <<Ack(msg)>>,
          calls |-> <<Call(ws, msg, info, FALSE, "returned", NoError, TRUE)>>]
    ELSE IF behaviour.does = "returns"
    THEN [sent |-> <<Ack(msg)>>,
          calls |-> <<Call(ws, msg, info, TRUE, "returned", NoError, TRUE)>>]
    ELSE IF behaviour.does = "throws"
    THEN [sent |-> <<ErrorReply(msg, behaviour.err)>>,
          calls |-> <<Call(ws, msg, info, TRUE, "raised", behaviour.err, TRUE)>>]
    ELSE [sent |-> <<>>,
          calls |-> <<Call(ws, msg, info, TRUE, "suspended", NoError, FALSE)>>]

HandleFrameWithoutReturn(message, ws, info, behaviour) ==
    IF JSONparseThrows(message)
    THEN [sent |-> <<ParseErrorReply>>, calls |-> NoCall]
    ELSE LET parsed == clientMessageShapeSafeParse(JSONparse(message))
             run == onClientMessage(parsed.data, ws, info, behaviour)
         IN  IF ~parsed.success
             THEN [sent |-> <<InvalidFormatReply>> \o run.sent, calls |-> run.calls]
             ELSE run

\* The try block of onMessage and its catch block: the frames sent in reply
\* to the frame and the #onClientMessage call made, if any. (The call is
\* async: what it throws never reaches the catch block of onMessage.)
HandleFrame(message, ws, info, behaviour) ==
    IF JSONparseThrows(message)
    THEN [sent |-> <<ParseErrorReply>>, calls |-> NoCall]
    ELSE LET parsed == clientMessageShapeSafeParse(JSONparse(message))
         IN  IF ~parsed.success
             THEN [sent |-> <<InvalidFormatReply>>, calls |-> NoCall]
             ELSE onClientMessage(parsed.data, ws, info, behaviour)

\* Whether the handler's behaviour matters for this frame (it does when a
\* handler is called).
CallsHandler(message) ==
    /\ ~JSONparseThrows(message)
    /\ clientMessageShapeSafeParse(JSONparse(message)).success
    /\ HasHandler(JSONparse(message).type)

\* onMessage(ws, message). The platform delivers the frames of connections
\* that are open, so the ws.send calls of this handler do not throw.
OnMessage ==
    \E ws \in WS, message \in Frames(ops + 1), behaviour \in HandlerBehaviours :
        /\ Tick
        /\ Live(conn[ws]) /\ conn[ws].client
        /\ CallsHandler(message) \/ behaviour.does = "returns"
        /\ IF ~MapHas(socketInfo, ws)
           THEN /\ lastOp' = [op |-> "message", ws |-> ws, message |-> message]
                /\ UNCHANGED <<socketInfo, attachment, wire, clientCalls>>
           ELSE
             LET info == socketInfo[ws]
                 flushed == IF info.status = "pending"
                            THEN Flush(messageBacklogs, info.socketId)
                            ELSE <<>>
                 run == HandleFrame(message, ws, info, behaviour)
             IN  /\ IF info.status = "pending"
                    THEN updateSocketInfo(ws, Promote(info))
                    ELSE UNCHANGED <<socketInfo, attachment>>
                 /\ wire' = [wire EXCEPT ![ws] = @ \o flushed \o run.sent]
                 /\ clientCalls' =
                        IF run.calls = NoCall THEN clientCalls
                        ELSE MapSet(clientCalls, run.calls[1].msg.messageId, run.calls[1])
                 /\ lastOp' = [op |-> "message", ws |-> ws, message |-> message]
        /\ UNCHANGED <<messageBacklogs, conn, enqueued, connectCalls,
                       disconnectCalls>>

\* A suspended handler's promise settles and #onClientMessage runs to its
\* end: the ack, or the error reply from the catch block. ws.send throwing in
\* the try block lands in the same catch block, whose ws.send then throws too.
Settle ==
    \E m \in DOMAIN clientCalls, how \in Settlements :
        /\ Tick
        /\ clientCalls[m].outcome = "suspended"
        /\ LET call == clientCalls[m]
               ws == call.ws
               reply == IF how.does = "returns" THEN Ack(call.msg)
                        ELSE ErrorReply(call.msg, how.err)
           IN  /\ wire' = IF wsSendThrows(ws) THEN wire
                          ELSE [wire EXCEPT ![ws] = Append(@, reply)]
               /\ clientCalls' = [clientCalls EXCEPT ![m] =
                     Call(ws, call.msg, call.info, TRUE,
                          IF how.does = "returns" THEN "returned" ELSE "raised",
                          how.err, ~wsSendThrows(ws))]
               /\ lastOp' = [op |-> "settle", ws |-> ws, messageId |-> m]
        /\ UNCHANGED <<socketInfo, messageBacklogs, conn, attachment, enqueued,
                       connectCalls, disconnectCalls>>

\* ------------------------------------------------------------- close, error
\* The error argument of the disconnect hook.
NoArg == [given |-> FALSE, message |-> ""]
ErrorArg(message) == [given |-> TRUE, message |-> message]

\* error instanceof Error ? error : new Error('Unknown error')
AsError(error) == IF error.isError THEN ErrorArg(error.message)
                  ELSE ErrorArg("Unknown error")

\* #onWebSocketCloseOrError(ws, error). A hook that throws ends the function
\* before it reaches this.#socketInfo.delete(ws).
onWebSocketCloseOrError(ws, error, hook) ==
    IF MapHas(socketInfo, ws)
    THEN /\ disconnectCalls' = [disconnectCalls EXCEPT ![ws] =
                Append(@, [info |-> socketInfo[ws], error |-> error.given])]
         /\ socketInfo' = IF hook = "throws" THEN socketInfo
                          ELSE MapDelete(socketInfo, ws)
    ELSE /\ hook = "returns"
         /\ socketInfo' = MapDelete(socketInfo, ws)
         /\ UNCHANGED disconnectCalls

\* onClose(ws, code, reason, wasClean)
OnClose ==
    \E ws \in WS, hook \in HookBehaviours :
        /\ Tick
        /\ conn[ws].accepted /\ conn[ws].client /\ ~conn[ws].closed
        /\ conn' = [conn EXCEPT ![ws].closed = TRUE]     \* ws.close(code, 'Goodbye')
        /\ onWebSocketCloseOrError(ws, NoArg, hook)
        /\ lastOp' = [op |-> "close", ws |-> ws, hook |-> hook]
        /\ UNCHANGED <<messageBacklogs, attachment, wire, clientCalls, enqueued,
                       connectCalls>>

\* onError(ws, error)
OnError ==
    \E ws \in WS, error \in {Boom, NotAnError}, hook \in HookBehaviours :
        /\ Tick
        /\ conn[ws].accepted /\ conn[ws].client /\ ~conn[ws].closed /\ ~conn[ws].errored
        /\ conn' = [conn EXCEPT ![ws].errored = TRUE]
        /\ onWebSocketCloseOrError(ws, AsError(error), hook)
        /\ lastOp' = [op |-> "error", ws |-> ws, hook |-> hook]
        /\ UNCHANGED <<messageBacklogs, attachment, wire, clientCalls, enqueued,
                       connectCalls>>

\* ------------------------------------------------------------- suspend/resume
\* The registry the constructor builds from ctx.getWebSockets().
RehydratedFromEveryAttachment ==
    [ws \in DOMAIN attachment |-> deserializeAttachment(attachment[ws])]

Rehydrated ==
    [ws \in {w \in getWebSockets : MapHas(attachment, w)} |->
        deserializeAttachment(attachment[ws])]

\* The actor is evicted while idle and constructed again for the next event:
\* the two maps start empty and the constructor fills #socketInfo.
Resume ==
    /\ Tick
    /\ \A m \in DOMAIN clientCalls : clientCalls[m].outcome # "suspended"
    /\ socketInfo' = Rehydrated
    /\ messageBacklogs' = EmptyMap
    /\ lastOp' = [op |-> "resume"]
    /\ UNCHANGED <<conn, attachment, wire, clientCalls, enqueued, connectCalls,
                   disconnectCalls>>

Init ==
    /\ socketInfo = EmptyMap
    /\ messageBacklogs = EmptyMap
    /\ conn = [ws \in WS |-> Unused]
    /\ attachment = EmptyMap
    /\ wire = [ws \in WS |-> <<>>]
    /\ clientCalls = EmptyMap
    /\ enqueued = [ws \in WS |-> <<>>]
    /\ connectCalls = {}
    /\ disconnectCalls = [ws \in WS |-> <<>>]
    /\ lastOp = [op |-> "new"]
    /\ ops = 0

Next ==
    \/ FetchRejected
    \/ FetchAccepted
    \/ SendInvalid
    \/ Send
    \/ OnMessage
    \/ Settle
    \/ OnClose
    \/ OnError
    \/ Resume
    \/ GetIsConnected

Spec == Init /\ [][Next]_vars

\* ============================================================= properties
\* What the properties read off the state.
AttachedStatus(att, ws) == att[ws].blob[4]
IsReply(frame) == frame.value.type \in {"ack", "error"}
IsReplyTo(frame, m) == IsReply(frame) /\ frame.value.responseTo = m
Last(seq) == seq[Len(seq)]
\* The frames a step appended to the connection.
NewOnWire(ws) == SubSeq(wire'[ws], Len(wire[ws]) + 1, Len(wire'[ws]))
Extends(ws) == /\ Len(wire'[ws]) >= Len(wire[ws])
               /\ SubSeq(wire'[ws], 1, Len(wire[ws])) = wire[ws]
BacklogOf(backlogs, socketId) ==
    IF MapHas(backlogs, socketId) THEN backlogs[socketId] ELSE <<>>

\* ------------------------------------------------------------- C1
LegalStatusStep(old, new) ==
    \/ old = new
    \/ old = "pending" /\ new \in {"ready", "closed"}
    \/ old = "ready" /\ new = "closed"

\* C1: in every step, for every connection, the status held in the registry
\* and the status held in the persisted attachment either stay as they are or
\* move pending->ready, pending->closed or ready->closed; a record that
\* enters the registry for a connection with an attachment does not fall
\* behind the attachment's status.
C1_StatusOnlyAdvances ==
    [][\A ws \in WS :
        /\ (MapHas(attachment, ws) /\ MapHas(attachment', ws))
              => LegalStatusStep(AttachedStatus(attachment, ws),
                                 AttachedStatus(attachment', ws))
        /\ (MapHas(socketInfo, ws) /\ MapHas(socketInfo', ws))
              => LegalStatusStep(socketInfo[ws].status, socketInfo'[ws].status)
        /\ (MapHas(attachment, ws) /\ MapHas(socketInfo', ws))
              => LegalStatusStep(AttachedStatus(attachment, ws),
                                 socketInfo'[ws].status)]_vars

\* A promoted session that has been through a suspend/resume cycle.
C1_Witness ==
    /\ lastOp.op = "resume"
    /\ \E ws \in WS : /\ MapHas(socketInfo, ws)
                      /\ socketInfo[ws].status = "ready"
                      /\ wire[ws] # <<>>

\* ------------------------------------------------------------- C2
WasBacklogged(ws, frame) ==
    \E i \in 1..Len(enqueued[ws]) : JSONstringify(enqueued[ws][i]) = frame
EnqueuedAt(ws, frame) ==
    CHOOSE i \in 1..Len(enqueued[ws]) : JSONstringify(enqueued[ws][i]) = frame

\* C2: on every connection, a message that send() backlogged is on the wire
\* at most once, the backlogged messages on the wire are in the order they
\* were enqueued, and no frame of another kind (immediate send, ack, error
\* reply) comes before a backlogged one.
C2_BacklogFirstInOrder ==
    \A ws \in WS :
      \A i, j \in 1..Len(wire[ws]) :
        (i < j /\ WasBacklogged(ws, wire[ws][j])) =>
            /\ WasBacklogged(ws, wire[ws][i])
            /\ wire[ws][i] # wire[ws][j]
            /\ EnqueuedAt(ws, wire[ws][i]) < EnqueuedAt(ws, wire[ws][j])

\* Two send() calls while pending, then a valid frame: [msg1, msg2, ack].
C2_Witness ==
    \E ws \in WS, m \in 1..MaxOps :
        /\ Len(enqueued[ws]) = 2
        /\ wire[ws] = << JSONstringify(enqueued[ws][1]),
                         JSONstringify(enqueued[ws][2]),
                         Ack(ClientMessage("echo", m)) >>

\* ------------------------------------------------------------- C3
\* C3: once a session has been promoted, every message send() backlogged for
\* it is on its connection's wire.
C3_BacklogDeliveredAtPromotion ==
    \A ws \in WS :
        (MapHas(socketInfo, ws) /\ socketInfo[ws].status = "ready") =>
            \A i \in 1..Len(enqueued[ws]) :
                \E j \in 1..Len(wire[ws]) :
                    wire[ws][j] = JSONstringify(enqueued[ws][i])

\* ------------------------------------------------------------- C4
\* The target set as the claim states it: the sessions whose subject is in
\* `to` (all when absent) minus those whose subject is in `notTo`.
InTargetSet(info, to, notTo) ==
    /\ to.given => info.subject \in to.list
    /\ notTo.given => info.subject \notin notTo.list

\* C4: a send() of a valid message appends exactly one copy of the message
\* to the wire or to the backlog of every registered session in the target
\* set, and changes neither the wire nor the backlog of any other session.
C4_SendReachesExactlyTheTargets ==
    [][(lastOp'.op = "send" /\ lastOp'.threw # "SocketHandlerError") =>
        \A ws \in DOMAIN socketInfo :
          LET info == socketInfo[ws]
              old == BacklogOf(messageBacklogs, info.socketId)
              new == BacklogOf(messageBacklogs', info.socketId)
              msg == lastOp'.msg
          IN  IF InTargetSet(info, lastOp'.to, lastOp'.notTo)
              THEN \/ wire'[ws] = Append(wire[ws], JSONstringify(msg)) /\ new = old
                   \/ wire'[ws] = wire[ws] /\ new = Append(old, msg)
              ELSE wire'[ws] = wire[ws] /\ new = old]_vars

\* ------------------------------------------------------------- C5
\* A token that does not verify: signed with another key, or issued for
\* another audience than the actor's id.
FailsVerification(token) ==
    token.present /\ (token.key # TokenSecret \/ token.aud # ActorId)

\* C5: a handshake whose token fails verification is not answered with an
\* upgrade, accepts no connection, leaves the registry and the attachments
\* as they were and does not call the connect hook.
C5_BadTokenIsRejected ==
    [][(lastOp'.op = "fetch" /\ FailsVerification(lastOp'.req.token)) =>
        /\ lastOp'.result.status # 101
        /\ UNCHANGED <<socketInfo, conn, attachment, connectCalls>>]_vars

\* A token for another actor's id is presented while a session is registered.
C5_Witness ==
    /\ lastOp.op = "fetch"
    /\ lastOp.req.token.present
    /\ lastOp.req.token.key = TokenSecret
    /\ lastOp.req.token.aud # ActorId
    /\ socketInfo # EmptyMap

\* ------------------------------------------------------------- C6
\* C6: every handshake either is answered 101 and adds one pending session
\* with the token's subject and audience on a newly accepted connection, or
\* is rejected with no connection accepted, no session inserted and no
\* attachment persisted.
C6_UpgradeOrNothing ==
    [][lastOp'.op = "fetch" =>
        \/ /\ lastOp'.result.status = 101
           /\ \E ws \in WS :
                /\ ~conn[ws].accepted /\ conn'[ws].accepted
                /\ MapHas(socketInfo', ws)
                /\ socketInfo'[ws].status = "pending"
                /\ socketInfo'[ws].subject = lastOp'.req.token.sub
                /\ socketInfo'[ws].audience = lastOp'.req.token.aud
        \/ /\ lastOp'.result.status # 101
           /\ UNCHANGED <<socketInfo, conn, attachment>>]_vars

\* ------------------------------------------------------------- C7
InvalidFrame(message) ==
    \/ message.text # "json"
    \/ message.value.type \notin {"echo", "noop"}
    \/ message.value.messageId = Null

\* C7: an inbound frame on a tracked connection that fails validation calls
\* no handler, is answered by exactly one reply, an error with responseTo
\* null and no ack, and leaves the session in the registry.
C7_InvalidFrameGetsOneErrorReply ==
    [][(/\ lastOp'.op = "message"
        /\ MapHas(socketInfo, lastOp'.ws)
        /\ InvalidFrame(lastOp'.message)) =>
        LET ws == lastOp'.ws
            replies == SelectSeq(NewOnWire(ws), IsReply)
        IN  /\ Extends(ws)
            /\ clientCalls' = clientCalls
            /\ Len(replies) = 1
            /\ replies[1].value.type = "error"
            /\ replies[1].value.responseTo = Null
            /\ Last(wire'[ws]) = replies[1]
            /\ MapHas(socketInfo', ws)]_vars

\* A frame the schema rejects arrives first on a connection with a backlog.
C7_Witness ==
    /\ lastOp.op = "message"
    /\ lastOp.message.text = "json"
    /\ InvalidFrame(lastOp.message)
    /\ Len(wire[lastOp.ws]) = 2
    /\ wire[lastOp.ws][1].value.type = "ping"
    /\ MapHas(socketInfo, lastOp.ws)

\* ------------------------------------------------------------- C8
\* C8 as stated: the reply to a frame that cannot be parsed is exactly
\* {type: "error", message: "Invalid message format", responseTo: null}.
C8_ParseFailureRepliesInvalidFormat ==
    (/\ lastOp.op = "message"
     /\ lastOp.message.text # "json"
     /\ MapHas(socketInfo, lastOp.ws)) =>
        Last(wire[lastOp.ws]) =
            JSONstringify([type |-> "error", message |-> "Invalid message format",
                           responseTo |-> Null])

\* C8 amended: the reply to a frame that cannot be parsed is exactly
\* {type: "error", message: "Error handling message", responseTo: null}; the
\* reply to a frame that parses and fails the schema is exactly
\* {type: "error", message: "Invalid message format", responseTo: null}.
C8_ParseFailureRepliesErrorHandling ==
    (/\ lastOp.op = "message"
     /\ InvalidFrame(lastOp.message)
     /\ MapHas(socketInfo, lastOp.ws)) =>
        Last(wire[lastOp.ws]) =
            JSONstringify([type |-> "error",
                           message |-> IF lastOp.message.text # "json"
                                       THEN "Error handling message"
                                       ELSE "Invalid message format",
                           responseTo |-> Null])

\* A frame that is no JSON has been answered on a ready connection.
C8_Witness ==
    /\ lastOp.op = "message"
    /\ lastOp.message.text # "json"
    /\ MapHas(socketInfo, lastOp.ws)
    /\ Len(wire[lastOp.ws]) >= 2

\* ------------------------------------------------------------- C9
RepliesTo(ws, m) == SelectSeq(wire[ws], LAMBDA f : IsReplyTo(f, m))
Completed(call) == call.outcome # "suspended"
ExpectedReply(call) ==
    IF call.outcome = "returned"
    THEN JSONstringify([type |-> "ack", responseTo |-> call.msg.messageId])
    ELSE JSONstringify([type |-> "error",
                        message |-> IF call.err.isError THEN call.err.message
                                    ELSE "An error occurred",
                        responseTo |-> call.msg.messageId])

\* C9 as stated: once the handler of a valid frame has completed (or none is
\* registered), exactly one reply to the frame is on the wire: the ack if it
\* returned, the error reply if it raised.
C9_ExactlyOneReply ==
    \A m \in DOMAIN clientCalls :
        Completed(clientCalls[m]) =>
            RepliesTo(clientCalls[m].ws, m) = <<ExpectedReply(clientCalls[m])>>

\* The state of the calls and the wire that C9 amended asks for.
C9_Replies ==
    \A m \in DOMAIN clientCalls :
        LET call == clientCalls[m]
        IN  /\ \A ws \in WS \ {call.ws} : RepliesTo(ws, m) = <<>>
            /\ Len(RepliesTo(call.ws, m)) <= 1
            /\ ~Completed(call) => RepliesTo(call.ws, m) = <<>>
            /\ (Completed(call) /\ call.replied) =>
                   RepliesTo(call.ws, m) = <<ExpectedReply(call)>>
            /\ (Completed(call) /\ ~call.replied) =>
                   RepliesTo(call.ws, m) = <<>> /\ ~Live(conn[call.ws])

\* C9 amended: for a valid frame with messageId m at most one reply is ever
\* sent; when its handler completes (or none is registered) while the
\* connection is open exactly one is sent, the ack if the handler returned
\* and the error reply with the raised error's message if it raised, and
\* none is sent when the connection has closed or failed meanwhile. A
\* handler that raises leaves the connection and the registry as they are,
\* and a session still registered then has status ready.
C9_OneReplyWhileOpen ==
    [][/\ C9_Replies'
       /\ \A m \in DOMAIN clientCalls' :
            LET call == clientCalls'[m]
                completes == /\ Completed(call)
                             /\ MapHas(clientCalls, m) => ~Completed(clientCalls[m])
            IN  completes =>
                  /\ Live(conn[call.ws]) => call.replied
                  /\ call.outcome = "raised" =>
                        /\ conn' = conn
                        /\ DOMAIN socketInfo' = DOMAIN socketInfo
                        /\ MapHas(socketInfo', call.ws) =>
                              socketInfo'[call.ws].status = "ready"]_vars

\* A suspended handler has rejected and the error reply has gone out.
C9_Witness ==
    /\ lastOp.op = "settle"
    /\ clientCalls[lastOp.messageId].outcome = "raised"
    /\ clientCalls[lastOp.messageId].replied
    /\ Last(wire[lastOp.ws]).value.message = "boom"

\* ------------------------------------------------------------- C10
\* C10: a close or error event on a tracked connection removes its record
\* from the registry and leaves the disconnect hook called exactly once for
\* it, with an error argument exactly when the event was an error; no
\* connection's hook is ever called twice.
C10_DisconnectRemovesAndNotifiesOnce ==
    [][/\ \A ws \in WS : Len(disconnectCalls'[ws]) <= 1
       /\ (lastOp'.op \in {"close", "error"} /\ MapHas(socketInfo, lastOp'.ws)) =>
            /\ ~MapHas(socketInfo', lastOp'.ws)
            /\ Len(disconnectCalls'[lastOp'.ws]) = 1
            /\ disconnectCalls'[lastOp'.ws][1].error = (lastOp'.op = "error")]_vars

\* ------------------------------------------------------------- C11
\* A target on which delivery cannot fail: the session is pending (the
\* message is enqueued) or its connection is open (the transport accepts it).
Deliverable(ws) ==
    \/ socketInfo[ws].status = "pending"
    \/ socketInfo[ws].status = "ready" /\ Live(conn[ws])

\* C11: in a send() of a valid message, every registered session of the
\* target set on which delivery cannot fail has the message appended to its
\* wire or to its backlog, whatever happens on the other targets of the call.
C11_FailureDoesNotStopOtherTargets ==
    [][(lastOp'.op = "send" /\ lastOp'.threw # "SocketHandlerError") =>
        \A ws \in DOMAIN socketInfo :
          LET info == socketInfo[ws]
              old == BacklogOf(messageBacklogs, info.socketId)
              new == BacklogOf(messageBacklogs', info.socketId)
          IN  (InTargetSet(info, lastOp'.to, lastOp'.notTo) /\ Deliverable(ws)) =>
                  \/ wire'[ws] = Append(wire[ws], JSONstringify(lastOp'.msg))
                  \/ new = Append(old, lastOp'.msg)]_vars


\* ------------------------------------------------------------- C12
\* C12: a send() whose message the server-message schema rejects throws to
\* its caller and changes nothing: no wire, no backlog, no registry entry, no
\* attachment, no connection; a send() whose message the schema accepts does
\* not throw the validation error.
C12_InvalidSendHasNoEffect ==
    [][lastOp'.op = "send" =>
        IF serverMessageShapeSafeParse(lastOp'.msg).success
        THEN lastOp'.threw # "SocketHandlerError"
        ELSE /\ lastOp'.threw = "SocketHandlerError"
             /\ UNCHANGED <<socketInfo, messageBacklogs, wire, enqueued,
                            attachment, conn>>]_vars

\* A rejected message was sent while a pending and a ready session, both
\* targeted, were registered.
C12_Witness ==
    /\ lastOp.op = "send"
    /\ lastOp.threw = "SocketHandlerError"
    /\ ~lastOp.to.given
    /\ \E a, b \in DOMAIN socketInfo :
          /\ socketInfo[a].status = "pending"
          /\ socketInfo[b].status = "ready" /\ Live(conn[b])


\* ------------------------------------------------------------- C13
\* The four fields of the record persisted on a connection.
Persisted(att, ws) ==
    [audience |-> att[ws].blob[1], subject |-> att[ws].blob[2],
     socketId |-> att[ws].blob[3], status |-> att[ws].blob[4]]

\* C13: after every step each record of the registry equals the attachment
\* persisted on its connection, and a resume gives every connection the
\* platform reports open the record (socketId, subject, audience, status) it
\* had before, the other connections none.
C13_RegistryEqualsAttachment ==
    [][/\ \A ws \in DOMAIN socketInfo' :
            MapHas(attachment', ws) /\ Persisted(attachment', ws) = socketInfo'[ws]
       /\ lastOp'.op = "resume" =>
            /\ DOMAIN socketInfo' = getWebSockets
            /\ \A ws \in getWebSockets :
                  MapHas(socketInfo, ws) /\ socketInfo'[ws] = socketInfo[ws]]_vars

\* A resume with a promoted and a pending session on open connections.
C13_Witness ==
    /\ lastOp.op = "resume"
    /\ \E a, b \in DOMAIN socketInfo :
          /\ socketInfo[a].status = "ready" /\ Live(conn[a])
          /\ socketInfo[b].status = "pending" /\ Live(conn[b])


\* ------------------------------------------------------------- C14
\* The three rejections of a handshake, read off the request.
NotAnUpgrade(req) == req.upgrade \notin {"websocket", "WebSocket"}
HandshakeRejection(req) ==
    NotAnUpgrade(req) \/ ~req.token.present \/ FailsVerification(req.token)

\* C14: a handshake that is not an upgrade request, or has no token, or has
\* a token that fails verification is not answered with an upgrade, accepts
\* no connection, and ends in an error whose code is a client error (4xx).
C14_RejectionsAreClientErrors ==
    [][(lastOp'.op = "fetch" /\ HandshakeRejection(lastOp'.req)) =>
        /\ lastOp'.result.status # 101
        /\ conn' = conn
        /\ lastOp'.result.code \in 400..499]_vars


\* ------------------------------------------------------------- C15
\* Where the reply to the frame with messageId m is on the wire (0: nowhere).
ReplyIndex(ws, m) ==
    IF \E i \in 1..Len(wire[ws]) : IsReplyTo(wire[ws][i], m)
    THEN CHOOSE i \in 1..Len(wire[ws]) : IsReplyTo(wire[ws][i], m)
    ELSE 0

\* C15: of two valid frames received on the same connection (messageIds are
\* given in the order of receipt), the later one's #onClientMessage call
\* exists only when the earlier one's handler has completed, and the reply
\* to the earlier frame is never after the reply to the later one.
C15_FramesProcessedInOrder ==
    \A m1, m2 \in DOMAIN clientCalls :
        (m1 < m2 /\ clientCalls[m1].ws = clientCalls[m2].ws) =>
            LET ws == clientCalls[m1].ws
            IN  /\ Completed(clientCalls[m1])
                /\ ReplyIndex(ws, m2) # 0 =>
                      /\ ReplyIndex(ws, m1) # 0 \/ ~clientCalls[m1].replied
                      /\ ReplyIndex(ws, m1) < ReplyIndex(ws, m2)


\* ------------------------------------------------------------- C16
\* The close or error event of the connection has been processed.
Disconnected(ws) == conn[ws].closed \/ conn[ws].errored

\* C16: in every step, a connection whose close or error event has been
\* processed gets no frame written to it and no message enqueued for its
\* socketId.
C16_NothingAfterDisconnect ==
    [][\A ws \in WS :
        Disconnected(ws) =>
            /\ wire'[ws] = wire[ws]
            /\ enqueued'[ws] = enqueued[ws]
            /\ Len(BacklogOf(messageBacklogs', randomUUID(ws)))
                  <= Len(BacklogOf(messageBacklogs, randomUUID(ws)))]_vars


\* ------------------------------------------------------------- C17
\* C17: every socketId that has a backlog queue belongs to a session of the
\* registry whose status is pending.
C17_BacklogOnlyWhilePending ==
    \A id \in DOMAIN messageBacklogs :
        \E ws \in DOMAIN socketInfo :
            socketInfo[ws].socketId = id /\ socketInfo[ws].status = "pending"


\* ------------------------------------------------------------- C18
\* C18: every session record the disconnect hook was called with has status
\* closed, and so has every record still in the registry for a connection
\* whose close or error event has been processed.
C18_DisconnectMovesToClosed ==
    \A ws \in WS :
        /\ \A i \in 1..Len(disconnectCalls[ws]) :
              disconnectCalls[ws][i].info.status = "closed"
        /\ (Disconnected(ws) /\ MapHas(socketInfo, ws)) =>
              socketInfo[ws].status = "closed"


\* ------------------------------------------------------------- C19
\* C19: after every step each record of the registry, and the attachment
\* persisted for it, has the actor's own id as audience, and the audience
\* persisted on a connection never changes.
C19_AudienceIsTheActor ==
    [][\A ws \in WS :
        /\ MapHas(socketInfo', ws) =>
              /\ socketInfo'[ws].audience = ActorId
              /\ Persisted(attachment', ws).audience = ActorId
        /\ (MapHas(attachment, ws) /\ MapHas(attachment', ws)) =>
              Persisted(attachment', ws).audience = Persisted(attachment, ws).audience
        /\ (MapHas(socketInfo, ws) /\ MapHas(socketInfo', ws)) =>
              socketInfo'[ws].audience = socketInfo[ws].audience]_vars

\* The registry was rebuilt by a resume and holds sessions of both subjects.
C19_Witness ==
    /\ lastOp.op = "resume"
    /\ \E a, b \in DOMAIN socketInfo :
          /\ socketInfo[a].subject = "alice" /\ socketInfo[b].subject = "bob"
          /\ socketInfo[a].audience = ActorId /\ socketInfo[b].audience = ActorId

\* ------------------------------------------------------------- C20
\* C20: whenever a step invokes a message handler, the session record passed
\* to it is the record the registry holds for the connection at that moment,
\* and its status is ready.
C20_HandlerGetsCurrentRecord ==
    [][\A m \in DOMAIN clientCalls' \ DOMAIN clientCalls :
        clientCalls'[m].handler =>
            /\ MapHas(socketInfo', clientCalls'[m].ws)
            /\ clientCalls'[m].info = socketInfo'[clientCalls'[m].ws]
            /\ clientCalls'[m].info.status = "ready"]_vars


\* ------------------------------------------------------------- C21
\* The connection's close or error event has been processed and its session
\* is no longer in the registry.
Removed(ws) == Disconnected(ws) /\ ~MapHas(socketInfo, ws)

\* C21: in every step, a connection whose session was removed at its close
\* or error event stays out of the registry, and the disconnect hook is not
\* called for it again.
C21_RemovedStaysRemoved ==
    [][\A ws \in WS :
        Removed(ws) =>
            /\ ~MapHas(socketInfo', ws)
            /\ disconnectCalls'[ws] = disconnectCalls[ws]]_vars

\* A resume rebuilt the registry after one session had been removed at its
\* close or error event, while another session is still registered.
C21_Witness ==
    /\ lastOp.op = "resume"
    /\ \E a, b \in WS :
          /\ Removed(a) /\ Len(disconnectCalls[a]) = 1
          /\ MapHas(socketInfo, b)


\* ------------------------------------------------------------- C22
\* C22: after every step no record of the registry and no persisted
\* attachment has status closed, and no send() removes a record from the
\* registry (the branch for a closed session is not taken).
C22_ClosedIsNeverStored ==
    [][/\ \A ws \in DOMAIN socketInfo' : socketInfo'[ws].status # "closed"
       /\ \A ws \in DOMAIN attachment' : Persisted(attachment', ws).status # "closed"
       /\ lastOp'.op = "send" => socketInfo' = socketInfo]_vars

\* A send() finds in the registry the record of a connection whose close or
\* error event has been processed.
C22_Witness ==
    /\ lastOp.op = "send"
    /\ lastOp.threw # "SocketHandlerError"
    /\ \E ws \in DOMAIN socketInfo :
          /\ Disconnected(ws)
          /\ InTargetSet(socketInfo[ws], lastOp.to, lastOp.notTo)


\* ------------------------------------------------------------- C23
\* The registered connections of a subject, and the first of them in
\* insertion order (handles are numbered in the order of insertion).
SessionsOf(subject) == {ws \in DOMAIN socketInfo : socketInfo[ws].subject = subject}
FirstOf(subject) ==
    CHOOSE ws \in SessionsOf(subject) : \A other \in SessionsOf(subject) : ws <= other

\* C23: a getIsConnected(subject) call changes neither the registry nor the
\* backlogs; it returns false when no session of the subject is registered,
\* and otherwise whether the first session of the subject in insertion order
\* is ready, so that true is returned only if a ready session of the subject
\* is registered.
C23_IsConnectedReadsFirstSession ==
    [][lastOp'.op = "getIsConnected" =>
        LET subject == lastOp'.subject
        IN  /\ UNCHANGED <<socketInfo, messageBacklogs>>
            /\ lastOp'.result =>
                  \E ws \in SessionsOf(subject) : socketInfo[ws].status = "ready"
            /\ SessionsOf(subject) = {} => ~lastOp'.result
            /\ SessionsOf(subject) # {} =>
                  lastOp'.result = (socketInfo[FirstOf(subject)].status = "ready")]_vars

\* The subject asked about has two sessions, the first pending and the
\* second ready, and the answer was false.
C23_Witness ==
    /\ lastOp.op = "getIsConnected"
    /\ ~lastOp.result
    /\ \E a, b \in SessionsOf(lastOp.subject) :
          /\ a < b
          /\ socketInfo[a].status = "pending"
          /\ socketInfo[b].status = "ready"


====
